---- MODULE Spec2Model ----
(***************************************************************************)
(* A model of transformToJs (src/index.ts): the TypeScript-to-JavaScript   *)
(* type eraser.  The source text is parsed into a positioned syntax tree,  *)
(* walk() visits the tree depth-first and queues overwrite() edits on a    *)
(* MagicString buffer, the buffer is rendered and the result is formatted. *)
(*                                                                         *)
(* Text is modelled as a sequence of tokens; whitespace and comments are   *)
(* tokens of their own.  Every range the program computes starts and ends  *)
(* at a token boundary, so positions are token offsets: a node covers      *)
(* [pos, end), pos including the node's leading trivia, and getStart() is  *)
(* the offset of its first token proper.                                   *)
(***************************************************************************)
EXTENDS Integers, Sequences, FiniteSets

VARIABLES
    text,       \* tsCode: the source text, a sequence of tokens
    nodes,      \* ast: the syntax tree, a pre-order table of nodes
    stack,      \* the pending walk(node) calls, next call first
    chunks,     \* the MagicString buffer `code`: its chunk list
    edits,      \* history: every code.overwrite call made so far
    visited,    \* history: the nodes walk() has been called on
    pc,         \* "walk", "rendered", "done" or "failed"
    output,     \* code.toString(), once rendered
    formatted   \* the value transformToJs resolves to

vars == <<text, nodes, stack, chunks, edits, visited, pc, output, formatted>>

\* The largest number of top-level statements of an input.
MaxStmts == 2

------------------------------------------------------------------------------
(* The parser's contract (ts.createSourceFile with setParentNodes): the    *)
(* tree of a text.  A layout is a token sequence with the table of the     *)
(* nodes that cover it, positions relative to the layout's first token.    *)
(* The layouts below are built from the text they cover, so that a tree    *)
(* and its text always agree.                                              *)

WS == " "
COMMENT == "/*c*/"

IsTrivia(t) == t \in {WS, COMMENT}

NewNode(kind, tok, typeOnly) ==
    [kind |-> kind, pos |-> 0, start |-> 0, end |-> 0, parent |-> 0,
     role |-> "", isToken |-> tok, isTypeOnly |-> typeOnly]

\* A token of the given SyntaxKind, as getChildren() reports it.
Tk(kind, t) ==
    [toks |-> <<t>>, nodes |-> <<[NewNode(kind, TRUE, FALSE) EXCEPT !.end = 1]>>]

\* A one-token node (an identifier, a literal, a keyword type).
Leaf(kind, t) ==
    [toks |-> <<t>>, nodes |-> <<[NewNode(kind, FALSE, FALSE) EXCEPT !.end = 1]>>]

\* Leading trivia: it belongs to the node that follows it, and to every
\* node that begins with that node (node.pos is the end of the previous
\* token, node.getStart() skips the trivia).
Lead(trivia, L) ==
    [toks |-> trivia \o L.toks,
     nodes |-> [i \in 1..Len(L.nodes) |->
        LET m == L.nodes[i]
            n == Len(trivia)
        IN  [m EXCEPT !.pos = IF m.pos = 0 THEN 0 ELSE m.pos + n,
                      !.start = m.start + n,
                      !.end = m.end + n]]]

W(L) == Lead(<<WS>>, L)
C(L) == Lead(<<WS, COMMENT, WS>>, L)

P(role, lay) == [role |-> role, lay |-> lay]
T(kind, t) == P("", Tk(kind, t))

Place(L, off, sh, role) ==
    [i \in 1..Len(L.nodes) |->
        LET m == L.nodes[i]
        IN  [m EXCEPT !.pos = m.pos + off,
                      !.start = m.start + off,
                      !.end = m.end + off,
                      !.parent = IF m.parent = 0 THEN 1 ELSE m.parent + sh,
                      !.role = IF m.parent = 0 THEN role ELSE m.role]]

RECURSIVE Build(_, _, _, _)
Build(parts, k, toks, ns) ==
    IF k > Len(parts) THEN [toks |-> toks, nodes |-> ns]
    ELSE Build(parts, k + 1, toks \o parts[k].lay.toks,
               ns \o Place(parts[k].lay, Len(toks), Len(ns), parts[k].role))

\* A node of the given kind whose children, tokens included, are the parts.
MkNode(kind, typeOnly, parts) ==
    LET b == Build(parts, 1, <<>>, <<NewNode(kind, FALSE, typeOnly)>>)
    IN  [toks |-> b.toks,
         nodes |-> [b.nodes EXCEPT ![1].start = b.nodes[2].start,
                                   ![1].end = Len(b.toks)]]

Mk(kind, parts) == MkNode(kind, FALSE, parts)

------------------------------------------------------------------------------
(* The syntax the inputs are drawn from.                                   *)

Id(x) == Leaf("Identifier", x)
Str == Leaf("StringLiteral", "\"123\"")

\* Types.
TKw(t) == Leaf("TypeKeyword", t)
TRef(t) == Mk("TypeReference", <<P("typeName", Id(t))>>)
\* Array<U>
TArrayOf(t) ==
    Mk("TypeReference", <<P("typeName", Id("Array")), T("LessThanToken", "<"),
                          P("typeArguments", TRef(t)),
                          T("GreaterThanToken", ">")>>)

\* Expressions.
\* e as t
As(e, t) ==
    Mk("AsExpression", <<P("expression", e), P("", W(Tk("AsKeyword", "as"))),
                         P("type", W(t))>>)
\* (e)
Paren(e) ==
    Mk("ParenthesizedExpression",
       <<T("OpenParenToken", "("), P("expression", e),
         T("CloseParenToken", ")")>>)

\* { [e]: number }: a type literal whose member has a computed name
TComputed(e) ==
    Mk("TypeLiteral",
       <<T("OpenBraceToken", "{"),
         P("members", W(Mk("PropertySignature",
            <<P("name", Mk("ComputedPropertyName",
                  <<T("OpenBracketToken", "["), P("expression", e),
                    T("CloseBracketToken", "]")>>)),
              T("ColonToken", ":"),
              P("type", W(TKw("number")))>>))),
         P("", W(Tk("CloseBraceToken", "}")))>>)

\* <div on:click={e} />
Jsx(e) ==
    Mk("JsxSelfClosingElement",
       <<T("LessThanToken", "<"), P("tagName", Id("div")),
         P("attributes", Mk("JsxAttributes",
            <<P("properties", W(Mk("JsxAttribute",
                <<P("name", Mk("JsxNamespacedName",
                      <<P("namespace", Id("on")), T("ColonToken", ":"),
                        P("name", Id("click"))>>)),
                  T("EqualsToken", "="),
                  P("initializer", Mk("JsxExpression",
                      <<T("OpenBraceToken", "{"), P("expression", e),
                        T("CloseBraceToken", "}")>>))>>)))>>)),
         P("", W(Tk("SlashToken", "/"))), T("GreaterThanToken", ">")>>)

\* name[?][: type]
Param(name, optional, type) ==
    Mk("Parameter",
       <<P("name", Id(name))>>
       \o (IF optional THEN <<P("questionToken", Tk("QuestionToken", "?"))>>
           ELSE <<>>)
       \o (IF type = <<>> THEN <<>>
           ELSE <<T("ColonToken", ":"), P("type", W(type[1]))>>))

\* <T>, <T extends C>
TypeParams(constraint) ==
    <<T("LessThanToken", "<"),
      P("typeParameters", Mk("TypeParameter",
         <<P("name", Id("T"))>>
         \o (IF constraint = <<>> THEN <<>>
             ELSE <<P("", W(Tk("ExtendsKeyword", "extends"))),
                    P("constraint", W(constraint[1]))>>))),
      T("GreaterThanToken", ">")>>

\* (params)[: type]
Signature(params, type) ==
    <<T("OpenParenToken", "(")>>
    \o [i \in 1..(IF params = <<>> THEN 0 ELSE 2 * Len(params) - 1) |->
          IF i = 1 THEN P("parameters", params[1])
          ELSE IF i % 2 = 1 THEN P("parameters", W(params[(i + 1) \div 2]))
          ELSE T("CommaToken", ",")]
    \o <<T("CloseParenToken", ")")>>
    \o (IF type = <<>> THEN <<>>
        ELSE <<T("ColonToken", ":"), P("type", W(type[1]))>>)

\* { statements }
Block(stmts) ==
    Mk("Block", <<T("OpenBraceToken", "{")>>
                \o [i \in 1..Len(stmts) |-> P("statements", W(stmts[i]))]
                \o <<P("", W(Tk("CloseBraceToken", "}")))>>)

\* [<T>](params)[: type] => body
Arrow(tparams, params, type, body) ==
    Mk("ArrowFunction",
       tparams \o Signature(params, type)
       \o <<P("equalsGreaterThanToken", W(Tk("EqualsGreaterThanToken", "=>"))),
            P("body", W(body))>>)

\* function [name][<T>](params)[: type] { statements }
Function(kind, name, tparams, params, type, stmts) ==
    Mk(kind,
       <<T("FunctionKeyword", "function")>>
       \o (IF name = "" THEN <<>> ELSE <<P("name", W(Id(name)))>>)
       \o tparams \o Signature(params, type)
       \o <<P("body", W(Block(stmts)))>>)

\* Statements.
\* name[!][: type][ = init]
VarDecl(name, definite, type, init) ==
    Mk("VariableDeclaration",
       <<P("name", Id(name))>>
       \o (IF definite
           THEN <<P("exclamationToken", Tk("ExclamationToken", "!"))>>
           ELSE <<>>)
       \o (IF type = <<>> THEN <<>>
           ELSE <<T("ColonToken", ":"), P("type", W(type[1]))>>)
       \o (IF init = <<>> THEN <<>>
           ELSE <<P("", W(Tk("EqualsToken", "="))),
                  P("initializer", W(init[1]))>>))

\* const decl;
VarStmt(kw, decl) ==
    Mk("VariableStatement",
       <<P("declarationList", Mk("VariableDeclarationList",
            <<T("VarKeyword", kw), P("declarations", W(decl))>>)),
         T("SemicolonToken", ";")>>)

\* return e;
Return(e) ==
    Mk("ReturnStatement",
       <<T("ReturnKeyword", "return"), P("expression", W(e)),
         T("SemicolonToken", ";")>>)

\* [type] name, or name as alias: an import or export specifier
Specifier(kind, typeOnly, name, alias) ==
    MkNode(kind, typeOnly,
       (IF typeOnly THEN <<T("TypeKeyword", "type"), P("name", W(Id(name)))>>
        ELSE IF alias = "" THEN <<P("name", Id(name))>>
        ELSE <<P("propertyName", Id(name)), P("", W(Tk("AsKeyword", "as"))),
               P("name", W(Id(alias)))>>))

\* { specifiers }, comma-separated; a comment follows the first specifier
\* when `commented`
NamedBindings(kind, specs, commented) ==
    Mk(kind,
       <<T("OpenBraceToken", "{")>>
       \o [i \in 1..(2 * Len(specs) - 1) |->
             IF i % 2 = 1 THEN P("elements", W(specs[(i + 1) \div 2]))
             ELSE IF commented /\ i = 2
                  THEN P("", C(Tk("CommaToken", ",")))
                  ELSE T("CommaToken", ",")]
       \o <<P("", W(Tk("CloseBraceToken", "}")))>>)

\* import [type] { specifiers } from "m";
Import(typeOnly, specs, commented) ==
    Mk("ImportDeclaration",
       <<T("ImportKeyword", "import"),
         P("importClause", MkNode("ImportClause", typeOnly,
            (IF typeOnly THEN <<P("", W(Tk("TypeKeyword", "type")))>> ELSE <<>>)
            \o <<P("namedBindings",
                   W(NamedBindings("NamedImports", specs, commented)))>>)),
         P("", W(Tk("FromKeyword", "from"))),
         P("moduleSpecifier", W(Leaf("StringLiteral", "\"m\""))),
         T("SemicolonToken", ";")>>)

\* export [type] { specifiers };
Export(typeOnly, specs, commented) ==
    MkNode("ExportDeclaration", typeOnly,
       <<T("ExportKeyword", "export")>>
       \o (IF typeOnly THEN <<P("", W(Tk("TypeKeyword", "type")))>> ELSE <<>>)
       \o <<P("exportClause",
              W(NamedBindings("NamedExports", specs, commented))),
            T("SemicolonToken", ";")>>)

\* type Foo = number;
TypeAlias ==
    Mk("TypeAliasDeclaration",
       <<T("TypeKeyword", "type"), P("name", W(Id("Foo"))),
         P("", W(Tk("EqualsToken", "="))), P("type", W(TKw("number"))),
         T("SemicolonToken", ";")>>)

\* interface Bar { x: number }
Interface ==
    Mk("InterfaceDeclaration",
       <<T("InterfaceKeyword", "interface"), P("name", W(Id("Bar"))),
         P("", W(Tk("OpenBraceToken", "{"))),
         P("members", W(Mk("PropertySignature",
            <<P("name", Id("x")), T("ColonToken", ":"),
              P("type", W(TKw("number")))>>))),
         P("", W(Tk("CloseBraceToken", "}")))>>)

\* enum E { Up }
Enum ==
    Mk("EnumDeclaration",
       <<T("EnumKeyword", "enum"), P("name", W(Id("E"))),
         P("", W(Tk("OpenBraceToken", "{"))),
         P("members", W(Mk("EnumMember", <<P("name", Id("Up"))>>))),
         P("", W(Tk("CloseBraceToken", "}")))>>)

\* namespace N { statements }
Namespace(stmts) ==
    Mk("ModuleDeclaration",
       <<T("NamespaceKeyword", "namespace"), P("name", W(Id("N"))),
         P("body", W(Mk("ModuleBlock",
            <<T("OpenBraceToken", "{")>>
            \o [i \in 1..Len(stmts) |-> P("statements", W(stmts[i]))]
            \o <<P("", W(Tk("CloseBraceToken", "}")))>>)))>>)

\* class C { m<T>(a: number): string { } }
Class ==
    Mk("ClassDeclaration",
       <<T("ClassKeyword", "class"), P("name", W(Id("C"))),
         P("", W(Tk("OpenBraceToken", "{"))),
         P("members", W(Mk("MethodDeclaration",
            <<P("name", Id("m"))>> \o TypeParams(<<>>)
            \o Signature(<<Param("a", FALSE, <<TKw("number")>>)>>,
                         <<TKw("string")>>)
            \o <<P("body", W(Block(<<>>)))>>))),
         P("", W(Tk("CloseBraceToken", "}")))>>)

------------------------------------------------------------------------------
(* The inputs: source files of at most MaxStmts top-level statements, each *)
(* one of the statements below.                                            *)

Num(t) == <<TKw(t)>>
NoType == <<>>

Catalogue ==
    << \* import type { Foo } from "m";
       Import(TRUE, <<Specifier("ImportSpecifier", FALSE, "Foo", "")>>, FALSE),
       \* import { type Foo, Bar as Baz } from "m";
       Import(FALSE, <<Specifier("ImportSpecifier", TRUE, "Foo", ""),
                       Specifier("ImportSpecifier", FALSE, "Bar", "Baz")>>,
              FALSE),
       \* import { type Foo } from "m";
       Import(FALSE, <<Specifier("ImportSpecifier", TRUE, "Foo", "")>>, FALSE),
       \* import { Foo /*c*/, Bar } from "m";
       Import(FALSE, <<Specifier("ImportSpecifier", FALSE, "Foo", ""),
                       Specifier("ImportSpecifier", FALSE, "Bar", "")>>, TRUE),
       \* export type { Foo };
       Export(TRUE, <<Specifier("ExportSpecifier", FALSE, "Foo", "")>>, FALSE),
       \* export { type Foo, Bar };
       Export(FALSE, <<Specifier("ExportSpecifier", TRUE, "Foo", ""),
                       Specifier("ExportSpecifier", FALSE, "Bar", "")>>,
              FALSE),
       \* type Foo = number;
       TypeAlias,
       \* interface Bar { x: number }
       Interface,
       \* enum E { Up }
       Enum,
       \* namespace N { const v = <div on:click={f} />; }
       Namespace(<<VarStmt("const",
                      VarDecl("v", FALSE, NoType, <<Jsx(Id("f"))>>))>>),
       \* const a: number = "123";
       VarStmt("const", VarDecl("a", FALSE, Num("number"), <<Str>>)),
       \* let a!: number;
       VarStmt("let", VarDecl("a", TRUE, Num("number"), <<>>)),
       \* const a: { [k as any]: number } = "123";
       VarStmt("const",
          VarDecl("a", FALSE, <<TComputed(As(Id("k"), TKw("any")))>>, <<Str>>)),
       \* const b = /*c*/ "123" as number;
       VarStmt("const",
          VarDecl("b", FALSE, NoType,
                  <<Lead(<<WS, COMMENT>>, As(Str, TKw("number")))>>)),
       \* const b = (x as A) as B;
       VarStmt("const",
          VarDecl("b", FALSE, NoType,
                  <<As(Paren(As(Id("x"), TRef("A"))), TRef("B"))>>)),
       \* const g = ((p: number) => { let q: number = x; }) as F;
       VarStmt("const",
          VarDecl("g", FALSE, NoType,
             <<As(Paren(Arrow(<<>>, <<Param("p", FALSE, Num("number"))>>,
                              NoType,
                              Block(<<VarStmt("let",
                                 VarDecl("q", FALSE, Num("number"),
                                         <<Id("x")>>))>>))),
                  TRef("F"))>>)),
       \* function foo<T extends Array<U>>(a: number, b?: string): string
       \*   { return x as T; }
       Function("FunctionDeclaration", "foo", TypeParams(<<TArrayOf("U")>>),
                <<Param("a", FALSE, Num("number")),
                  Param("b", TRUE, Num("string"))>>,
                Num("string"), <<Return(As(Id("x"), TRef("T")))>>),
       \* const h = function <T>(a: number): string { };
       VarStmt("const",
          VarDecl("h", FALSE, NoType,
             <<Function("FunctionExpression", "", TypeParams(<<>>),
                        <<Param("a", FALSE, Num("number"))>>, Num("string"),
                        <<>>)>>)),
       \* const k = <T extends unknown>(a: number): string => a;
       VarStmt("const",
          VarDecl("k", FALSE, NoType,
             <<Arrow(TypeParams(<<TKw("unknown")>>),
                     <<Param("a", FALSE, Num("number"))>>, Num("string"),
                     Id("a"))>>)),
       \* class C { m<T>(a: number): string { } }
       Class,
       \* const el: Element = <div on:click={(e: Event) => e} />;
       VarStmt("const",
          VarDecl("el", FALSE, <<TRef("Element")>>,
             <<Jsx(Arrow(<<>>, <<Param("e", FALSE, <<TRef("Event")>>)>>,
                         NoType, Id("e")))>>)),
       \* const j = <div on:click={f} /> as any;
       VarStmt("const",
          VarDecl("j", FALSE, NoType, <<As(Jsx(Id("f")), TKw("any"))>>)),
       \* const a = "123";
       VarStmt("const", VarDecl("a", FALSE, NoType, <<Str>>)) >>

\* The statement sequences: each statement an index into the catalogue.
Programs == UNION {[1..n -> 1..Len(Catalogue)] : n \in 1..MaxStmts}

\* The source file of a statement sequence.  The first statement follows a
\* comment line, the others a line break.
SourceFile(prog) ==
    Mk("SourceFile",
       [i \in 1..Len(prog) |->
          P("statements", IF i = 1 THEN C(Catalogue[prog[i]])
                          ELSE W(Catalogue[prog[i]]))])

------------------------------------------------------------------------------
(* Reading the tree.                                                       *)

Root == 1

\* node.getChildren(): the children of node n, tokens included, in order.
\* (The table is in pre-order, so index order is source order.)
GetChildren(n) ==
    SelectSeq([i \in 1..Len(nodes) |-> i], LAMBDA i : nodes[i].parent = n)

\* ts.forEachChild(node, cb): the children that are properties of the
\* node; punctuation and keywords are only found by getChildren().
ForEachChild(n) == SelectSeq(GetChildren(n), LAMBDA i : nodes[i].role # "")

\* The children of n in property `role` (a node array such as
\* node.parameters, or a single node such as node.type).
Property(n, role) ==
    SelectSeq(GetChildren(n), LAMBDA i : nodes[i].role = role)

\* node.getChildren().find((c) => c.kind === kind), <<>> when undefined
FindChild(n, kind) ==
    LET found == SelectSeq(GetChildren(n), LAMBDA i : nodes[i].kind = kind)
    IN  IF found = <<>> THEN <<>> ELSE <<found[1]>>

\* A token of text, with the offset it was copied from (history), or -1
\* for a token the program wrote itself.
Copied(i) == [t |-> text[i + 1], src |-> i]
Literal(t) == [t |-> t, src |-> -1]

\* node.getText(): the text from getStart() to end, leading trivia excluded
GetText(n) ==
    [i \in 1..(nodes[n].end - nodes[n].start) |-> Copied(nodes[n].start + i - 1)]

\* Array.prototype.join
RECURSIVE Join(_, _)
Join(strs, sep) ==
    IF strs = <<>> THEN <<>>
    ELSE IF Len(strs) = 1 THEN strs[1]
    ELSE strs[1] \o sep \o Join(Tail(strs), sep)

------------------------------------------------------------------------------
(* The buffer: MagicString.  It keeps the original text as a list of       *)
(* chunks; an overwrite splits the chunks at both ends of its range and    *)
(* edits the chunks between.                                               *)

NewBuffer == <<[start |-> 0, end |-> Len(text), edited |-> FALSE,
                content |-> <<>>]>>

IsSplitPoint(cs, index) ==
    \E i \in 1..Len(cs) : cs[i].start = index \/ cs[i].end = index

ChunkContaining(cs, index) ==
    CHOOSE i \in 1..Len(cs) : cs[i].start < index /\ index < cs[i].end

\* _splitChunk throws on a chunk that was edited to a non-empty content
SplitThrows(cs, index) ==
    /\ ~IsSplitPoint(cs, index)
    /\ LET c == cs[ChunkContaining(cs, index)]
       IN  c.edited /\ c.content # <<>>

\* _split(index): both halves of an unedited chunk are unedited; both
\* halves of a chunk edited to "" are edited to ""
Split(cs, index) ==
    IF IsSplitPoint(cs, index) THEN cs
    ELSE LET i == ChunkContaining(cs, index)
         IN  SubSeq(cs, 1, i - 1)
             \o <<[cs[i] EXCEPT !.end = index], [cs[i] EXCEPT !.start = index]>>
             \o SubSeq(cs, i + 1, Len(cs))

OverwriteThrows(cs, start, end) ==
    \/ end > Len(text)
    \/ start = end
    \/ SplitThrows(cs, start)
    \/ SplitThrows(Split(cs, start), end)

\* overwrite(start, end, content): the first chunk of the range takes the
\* content, the others of the range become empty
Overwrite(cs, start, end, content) ==
    LET split == Split(Split(cs, start), end)
    IN  [i \in 1..Len(split) |->
           IF split[i].start = start
           THEN [split[i] EXCEPT !.edited = TRUE, !.content = content]
           ELSE IF split[i].start > start /\ split[i].end <= end
           THEN [split[i] EXCEPT !.edited = TRUE, !.content = <<>>]
           ELSE split[i]]

\* The overwrite calls of one walk(node) call, in order, up to the first
\* that throws: the buffer they leave, the calls made, and whether all were.
RECURSIVE OverwriteAll(_, _, _)
OverwriteAll(cs, calls, made) ==
    IF calls = <<>> THEN [chunks |-> cs, made |-> made, ok |-> TRUE]
    ELSE LET e == Head(calls)
         IN  IF OverwriteThrows(cs, e.start, e.end)
             THEN [chunks |-> cs, made |-> made, ok |-> FALSE]
             ELSE OverwriteAll(Overwrite(cs, e.start, e.end, e.content),
                               Tail(calls), Append(made, e))

RECURSIVE Concat(_)
Concat(seqs) == IF seqs = <<>> THEN <<>> ELSE Head(seqs) \o Concat(Tail(seqs))

\* toString(): every chunk's content, an unedited chunk's being its text
ToString(cs) ==
    Concat([i \in 1..Len(cs) |->
              IF cs[i].edited THEN cs[i].content
              ELSE [k \in 1..(cs[i].end - cs[i].start) |->
                      Copied(cs[i].start + k - 1)]])

------------------------------------------------------------------------------
(* walk(node): the edits of each rule.  An edit records the node whose     *)
(* rule made it (history).                                                 *)

Edit(start, end, content, n, rule) ==
    [start |-> start, end |-> end, content |-> content, node |-> n,
     rule |-> rule]

Kind(n) == nodes[n].kind

IsTypeOnlyImport(n) ==
    /\ Kind(n) = "ImportDeclaration"
    /\ \E c \in 1..Len(nodes) :
          /\ nodes[c].parent = n
          /\ nodes[c].role = "importClause"
          /\ nodes[c].isTypeOnly

IsTypeOnlyExport(n) == Kind(n) = "ExportDeclaration" /\ nodes[n].isTypeOnly

IsTypeDeclaration(n) ==
    Kind(n) \in {"TypeAliasDeclaration", "InterfaceDeclaration",
                 "EnumDeclaration", "ModuleDeclaration"}

IsFunction(n) ==
    Kind(n) \in {"FunctionDeclaration", "FunctionExpression", "ArrowFunction"}

\* DeleteNode, were it to start at the node's first token
DeleteNode_fromGetStart(n, rule) ==
    <<Edit(nodes[n].start, nodes[n].end, <<>>, n, rule)>>

\* code.overwrite(node.pos, node.end, "")
DeleteNode(n, rule) == <<Edit(nodes[n].pos, nodes[n].end, <<>>, n, rule)>>

\* node.elements.filter((e) => !e.isTypeOnly)
ValueElements(n) ==
    SelectSeq(Property(n, "elements"), LAMBDA i : ~nodes[i].isTypeOnly)

\* "{" + elements.map((e) => e.getText()).join(sep) + "}"
BraceList(elements, sep) ==
    <<Literal("{")>>
    \o Join([i \in 1..Len(elements) |-> GetText(elements[i])], sep)
    \o <<Literal("}")>>

\* NamedImportsEdits, were the type-only specifiers not filtered out
NamedImportsEdits_unfiltered(n) ==
    <<Edit(nodes[n].pos, nodes[n].end,
           BraceList(Property(n, "elements"), <<Literal(",")>>), n,
           "NamedImports")>>

NamedImportsEdits(n) ==
    <<Edit(nodes[n].pos, nodes[n].end,
           BraceList(ValueElements(n), <<Literal(",")>>), n, "NamedImports")>>

NamedExportsEdits(n) ==
    <<Edit(nodes[n].pos, nodes[n].end,
           BraceList(ValueElements(n), <<Literal(","), Literal(WS)>>), n,
           "NamedExports")>>

\* code.overwrite(node.pos, node.end, node.expression.getText())
AsExpressionEdits(n) ==
    <<Edit(nodes[n].pos, nodes[n].end, GetText(Property(n, "expression")[1]),
           n, "AsExpression")>>

\* AnnotationEdits, were the deletion to run to the end of the node
AnnotationEdits_toNodeEnd(n, rule) ==
    LET type == Property(n, "type")
        colonToken == FindChild(n, "ColonToken")
    IN  IF type # <<>> /\ colonToken # <<>>
        THEN <<Edit(nodes[colonToken[1]].pos, nodes[n].end, <<>>, n, rule)>>
        ELSE <<>>

\* if (n.type) { colonToken = find(ColonToken);
\*               if (colonToken) overwrite(colonToken.pos, n.type.end, "") }
AnnotationEdits(n, rule) ==
    LET type == Property(n, "type")
        colonToken == FindChild(n, "ColonToken")
    IN  IF type # <<>> /\ colonToken # <<>>
        THEN <<Edit(nodes[colonToken[1]].pos, nodes[type[1]].end, <<>>, n,
                    rule)>>
        ELSE <<>>

VariableDeclarationEdits(n) == AnnotationEdits(n, "VariableDeclaration")

\* if (typeParameters.length > 0) { ltToken, gtToken = find(...);
\*     if (ltToken && gtToken) overwrite(ltToken.pos, gtToken.end, "") }
TypeParameterEdits(n) ==
    LET ltToken == FindChild(n, "LessThanToken")
        gtToken == FindChild(n, "GreaterThanToken")
    IN  IF Property(n, "typeParameters") # <<>> /\ ltToken # <<>>
           /\ gtToken # <<>>
        THEN <<Edit(nodes[ltToken[1]].pos, nodes[gtToken[1]].end, <<>>, n,
                    "TypeParameters")>>
        ELSE <<>>

\* node.parameters.forEach((p) => ...)
ParameterEdits(n) ==
    LET ps == Property(n, "parameters")
    IN  Concat([i \in 1..Len(ps) |-> AnnotationEdits(ps[i], "Parameter")])

FunctionEdits(n) ==
    TypeParameterEdits(n) \o AnnotationEdits(n, "ReturnType")
    \o ParameterEdits(n)

------------------------------------------------------------------------------
(* The state machine.                                                      *)

Init ==
    /\ \E prog \in Programs :
          LET file == SourceFile(prog)
          IN  /\ text = file.toks
              /\ nodes = file.nodes
              /\ chunks = NewBuffer
    /\ stack = <<Root>>
    /\ edits = <<>>
    /\ visited = {}
    /\ pc = "walk"
    /\ output = <<>>
    /\ formatted = <<>>

\* One walk(node) call: its overwrites, then either `return` or
\* ts.forEachChild(node, walk), whose calls come before the pending ones.
\* An overwrite that throws ends the transform.
Call(n, calls, descend) ==
    LET done == OverwriteAll(chunks, calls, <<>>)
    IN  /\ chunks' = done.chunks
        /\ edits' = edits \o done.made
        /\ visited' = visited \cup {n}
        /\ stack' = IF ~done.ok THEN <<>>
                    ELSE IF descend THEN ForEachChild(n) \o Tail(stack)
                    ELSE Tail(stack)
        /\ pc' = IF done.ok THEN "walk" ELSE "failed"
        /\ UNCHANGED <<text, nodes, output, formatted>>

Walking == pc = "walk" /\ stack # <<>>

WalkTypeOnlyImport ==
    /\ Walking
    /\ IsTypeOnlyImport(Head(stack))
    /\ Call(Head(stack), DeleteNode(Head(stack), "ImportDeclaration"), FALSE)

WalkNamedImports ==
    /\ Walking
    /\ Kind(Head(stack)) = "NamedImports"
    /\ Call(Head(stack), NamedImportsEdits(Head(stack)), FALSE)

WalkTypeOnlyExport ==
    /\ Walking
    /\ IsTypeOnlyExport(Head(stack))
    /\ Call(Head(stack), DeleteNode(Head(stack), "ExportDeclaration"), FALSE)

WalkNamedExports ==
    /\ Walking
    /\ Kind(Head(stack)) = "NamedExports"
    /\ Call(Head(stack), NamedExportsEdits(Head(stack)), FALSE)

WalkAsExpression ==
    /\ Walking
    /\ Kind(Head(stack)) = "AsExpression"
    /\ Call(Head(stack), AsExpressionEdits(Head(stack)), FALSE)

WalkTypeDeclaration ==
    /\ Walking
    /\ IsTypeDeclaration(Head(stack))
    /\ Call(Head(stack), DeleteNode(Head(stack), "TypeDeclaration"), FALSE)

WalkVariableDeclaration ==
    /\ Walking
    /\ Kind(Head(stack)) = "VariableDeclaration"
    /\ Call(Head(stack), VariableDeclarationEdits(Head(stack)), TRUE)

WalkFunction ==
    /\ Walking
    /\ IsFunction(Head(stack))
    /\ Call(Head(stack), FunctionEdits(Head(stack)), TRUE)

\* A node no rule matches: only ts.forEachChild(node, walk).
WalkOther ==
    /\ Walking
    /\ LET n == Head(stack)
       IN  /\ ~IsTypeOnlyImport(n)
           /\ ~IsTypeOnlyExport(n)
           /\ ~IsTypeDeclaration(n)
           /\ ~IsFunction(n)
           /\ Kind(n) \notin {"NamedImports", "NamedExports", "AsExpression",
                              "VariableDeclaration"}
           /\ Call(n, <<>>, TRUE)

\* code.toString(), once walk(ast) has returned
Render ==
    /\ pc = "walk"
    /\ stack = <<>>
    /\ output' = ToString(chunks)
    /\ pc' = "rendered"
    /\ UNCHANGED <<text, nodes, stack, chunks, edits, visited, formatted>>

Texts(toks) == [i \in 1..Len(toks) |-> toks[i].t]

\* The next token of toks after index i that is not trivia, "" at the end.
RECURSIVE NextToken(_, _)
NextToken(toks, i) ==
    IF i >= Len(toks) THEN ""
    ELSE IF IsTrivia(toks[i + 1]) THEN NextToken(toks, i + 1)
    ELSE toks[i + 1]

\* A text the babel parser rejects: one with a "?" or a "!" that no operand
\* follows.  (Of the syntax errors a rendered text can have, the one this
\* model tells.)
SyntaxError(toks) ==
    \E i \in 1..Len(toks) :
        /\ toks[i] \in {"?", "!"}
        /\ NextToken(toks, i) \in {",", ")", "=", ";", ""}

\* prettier.format(text, {parser: "babel"}): throws on a text that does
\* not parse, and otherwise lays the tokens out anew, comments kept.
PrettierFormat(toks) == SelectSeq(toks, LAMBDA t : t # WS)

Format ==
    /\ pc = "rendered"
    /\ IF SyntaxError(Texts(output))
       THEN pc' = "failed" /\ formatted' = <<>>
       ELSE pc' = "done" /\ formatted' = PrettierFormat(Texts(output))
    /\ UNCHANGED <<text, nodes, stack, chunks, edits, visited, output>>

Next ==
    \/ WalkTypeOnlyImport
    \/ WalkNamedImports
    \/ WalkTypeOnlyExport
    \/ WalkNamedExports
    \/ WalkAsExpression
    \/ WalkTypeDeclaration
    \/ WalkVariableDeclaration
    \/ WalkFunction
    \/ WalkOther
    \/ Render
    \/ Format

Spec == Init /\ [][Next]_vars

------------------------------------------------------------------------------
(* Properties.                                                             *)

Nodes == 1..Len(nodes)
Edits == 1..Len(edits)

\* The tokens of node n proper: the offsets from getStart() to end.
Tokens(n) == nodes[n].start .. (nodes[n].end - 1)

\* The token at offset i of the source is copied into the rendered text.
InOutput(i) == \E k \in 1..Len(output) : output[k].src = i

\* Node m lies inside node n.
RECURSIVE Inside(_, _)
Inside(m, n) ==
    /\ nodes[m].parent # 0
    /\ (nodes[m].parent = n \/ Inside(nodes[m].parent, n))

\* The constructs the transform removes whole.
IsRemoved(n) ==
    IsTypeOnlyImport(n) \/ IsTypeOnlyExport(n) \/ IsTypeDeclaration(n)

InRemoved(m) == \E n \in Nodes : IsRemoved(n) /\ Inside(m, n)

\* Node m is, or lies inside, a type annotation or a type parameter.
InTypeSyntax(m) ==
    \E n \in Nodes :
        /\ nodes[n].role \in {"type", "typeParameters", "constraint"}
        /\ (m = n \/ Inside(m, n))

Covers(e, n) == e.start < nodes[n].end /\ nodes[n].start < e.end

EditsOf(n) == SelectSeq(edits, LAMBDA e : e.node = n)

\* The offsets of an annotation of node n: its colon through its type.
AnnotationTokens(n) ==
    LET type == Property(n, "type")
        colonToken == FindChild(n, "ColonToken")
    IN  IF type # <<>> /\ colonToken # <<>>
        THEN nodes[colonToken[1]].start .. (nodes[type[1]].end - 1)
        ELSE {}

\* C1: any two edits queued by walk() have non-overlapping source ranges,
\* at every point of the walk.
RangeEditDisjointness ==
    \A i, j \in Edits :
        i < j => \/ edits[i].end <= edits[j].start
                 \/ edits[j].end <= edits[i].start

\* C2: for every type assertion of the input, at any depth, the rendered
\* text has the inner expression and neither the `as` keyword nor the
\* cast target of that assertion.
TypeAssertionErasure ==
    pc = "rendered" =>
        \A n \in Nodes :
            Kind(n) = "AsExpression" =>
                /\ \A i \in nodes[FindChild(n, "AsKeyword")[1]].start
                            .. (nodes[n].end - 1) : ~InOutput(i)
                /\ InOutput(nodes[Property(n, "expression")[1]].start)

\* C3: for every function declaration, function expression, method and
\* arrow function not inside a removed construct, the rendered text has
\* nothing of its type-parameter list, its return-type annotation or its
\* parameters' type annotations.
SignatureTokens(n) ==
    LET ltToken == FindChild(n, "LessThanToken")
        gtToken == FindChild(n, "GreaterThanToken")
        ps == Property(n, "parameters")
    IN  (IF Property(n, "typeParameters") # <<>>
         THEN nodes[ltToken[1]].start .. (nodes[gtToken[1]].end - 1)
         ELSE {})
        \cup AnnotationTokens(n)
        \cup UNION {AnnotationTokens(ps[i]) : i \in 1..Len(ps)}

SignatureErasure ==
    pc = "rendered" =>
        \A n \in Nodes :
            /\ IsFunction(n) \/ Kind(n) = "MethodDeclaration"
            /\ ~InRemoved(n)
            => \A i \in SignatureTokens(n) : ~InOutput(i)

\* C4: the list of a named import that is not type-only is replaced by
\* "{", the texts of its specifiers that are not type-only, in their
\* order and as written, with "," between them, and "}"; when all its
\* specifiers are type-only the list becomes "{}", and the import
\* statement with its module string is still in the rendered text.
IsValueImportList(n) ==
    /\ Kind(n) = "NamedImports"
    /\ ~nodes[nodes[n].parent].isTypeOnly

\* The offsets of the tokens of the nodes ns, in order.
OffsetsOf(ns) ==
    Concat([i \in 1..Len(ns) |->
              [k \in 1..(nodes[ns[i]].end - nodes[ns[i]].start) |->
                 nodes[ns[i]].start + k - 1]])

MarkupColonUntouched ==
    \A m \in Nodes :
        Kind(m) = "JsxNamespacedName" =>
            \A e \in Edits : ~Covers(edits[e], m)

\* C5, amended: the name of a namespaced markup attribute that is not
\* inside a removed declaration or a type annotation is in the rendered
\* text, whole and in order; the only edits whose range covers it are
\* rewrites of a type assertion around it, which copy it.
MarkupColonSafety ==
    pc = "rendered" =>
        \A m \in Nodes :
            Kind(m) = "JsxNamespacedName" /\ ~InRemoved(m) /\ ~InTypeSyntax(m)
            => /\ \A e \in Edits :
                     Covers(edits[e], m) => edits[e].rule = "AsExpression"
               /\ \E k \in 1..Len(output) :
                     \A d \in 0..(nodes[m].end - nodes[m].start - 1) :
                        /\ k + d <= Len(output)
                        /\ output[k + d] = Copied(nodes[m].start + d)

MarkupColonSafetyWitness ==
    /\ pc = "rendered"
    /\ \E m \in Nodes :
          /\ Kind(m) = "JsxNamespacedName"
          /\ ~InRemoved(m)
          /\ \E e \in Edits : Covers(edits[e], m)
    /\ \E m \in Nodes :
          /\ Kind(m) = "JsxNamespacedName"
          /\ \E n \in Nodes :
                /\ Kind(n) = "VariableDeclaration"
                /\ Inside(m, n)
                /\ EditsOf(n) # <<>>

\* C6: for every node the walk reaches that is a type-only import or
\* export declaration, a type alias, an interface, an enum or a module
\* declaration, exactly one edit is queued, which replaces [pos, end) by
\* the empty string; no edit is queued for a node inside it; the edit
\* covers no sibling statement of another kind, and such a sibling is in
\* the rendered text, but for what the edits of its own nodes replace.
IsSibling(s, n) == s # n /\ nodes[s].parent = nodes[n].parent /\ ~nodes[s].isToken

WholeDeclarationDeletion ==
    \A n \in visited :
        IsRemoved(n) =>
            /\ Len(EditsOf(n)) = 1
            /\ EditsOf(n)[1].start = nodes[n].pos
            /\ EditsOf(n)[1].end = nodes[n].end
            /\ EditsOf(n)[1].content = <<>>
            /\ \A e \in Edits : ~Inside(edits[e].node, n)
            /\ \A s \in Nodes :
                  IsSibling(s, n) /\ ~IsRemoved(s) =>
                     /\ \/ EditsOf(n)[1].end <= nodes[s].pos
                        \/ nodes[s].end <= EditsOf(n)[1].start
                     /\ pc = "rendered" =>
                           \A i \in Tokens(s) :
                              (\A e \in Edits :
                                  i \notin edits[e].start .. (edits[e].end - 1))
                              => InOutput(i)

WholeDeclarationDeletionWitness ==
    /\ pc = "rendered"
    /\ \E n \in visited :
          /\ Kind(n) = "ModuleDeclaration"
          /\ \E m \in Nodes : Inside(m, n) /\ Kind(m) = "VariableDeclaration"
          /\ \E s \in Nodes :
                /\ IsSibling(s, n)
                /\ Kind(s) = "VariableStatement"
                /\ \A i \in Tokens(s) : InOutput(i)

\* C7: for every variable declarator with a declared type, exactly the
\* range from its colon token through the end of the type is deleted, and
\* the name, the initializer's "=" and the rest are outside that edit and
\* are in the rendered text.
VariableAnnotationErasure ==
    pc = "rendered" =>
        \A n \in Nodes :
            Kind(n) = "VariableDeclaration" /\ Property(n, "type") # <<>> =>
                /\ Len(EditsOf(n)) = 1
                /\ EditsOf(n)[1].start = nodes[FindChild(n, "ColonToken")[1]].pos
                /\ EditsOf(n)[1].end = nodes[Property(n, "type")[1]].end
                /\ \A i \in AnnotationTokens(n) : ~InOutput(i)
                /\ \A i \in Tokens(Property(n, "name")[1]) : InOutput(i)
                /\ \A c \in Nodes :
                      nodes[c].parent = n /\ Kind(c) = "EqualsToken"
                      => InOutput(nodes[c].start)

\* C8: no edit removes a comment that is not part of type-only syntax:
\* not one before a deleted declaration or a rewritten type assertion or
\* specifier list (the leading trivia of the node), and not one between
\* the specifiers that are kept.
IsComment(i) == text[i + 1] = COMMENT

CommentsVerbatim ==
    pc = "rendered" =>
        \A e \in Edits :
            LET n == edits[e].node
                kept == IF Kind(n) \in {"NamedImports", "NamedExports"}
                        THEN ValueElements(n) ELSE <<>>
            IN  /\ edits[e].start = nodes[n].pos =>
                      \A i \in nodes[n].pos .. (nodes[n].start - 1) :
                         IsComment(i) => InOutput(i)
                /\ kept # <<>> =>
                      \A i \in nodes[kept[1]].start
                               .. (nodes[kept[Len(kept)]].end - 1) :
                         IsComment(i) => InOutput(i)

\* C9: the rendered text parses as JavaScript: no edit joins the token
\* before its range to the first token it keeps, and none leaves the "?"
\* or "!" of an erased annotation behind.
WordKinds ==
    {"Identifier", "NumericLiteral", "ReturnKeyword", "VarKeyword",
     "FunctionKeyword", "ImportKeyword", "ExportKeyword", "FromKeyword",
     "AsKeyword", "TypeKeyword", "ClassKeyword", "ExtendsKeyword",
     "NamespaceKeyword", "EnumKeyword", "InterfaceKeyword"}

\* The output token o is a word: an identifier, a keyword or a number.
IsWord(o) ==
    /\ o.src >= 0
    /\ \E m \in Nodes :
          /\ nodes[m].start = o.src
          /\ nodes[m].end = o.src + 1
          /\ Kind(m) \in WordKinds

\* Two words with nothing between them read as one.
JoinsTokens(out) ==
    \E k \in 1..(Len(out) - 1) : IsWord(out[k]) /\ IsWord(out[k + 1])

ParseableIntermediateText ==
    pc = "rendered" =>
        /\ ~JoinsTokens(output)
        /\ ~SyntaxError(Texts(output))

\* C10: on an input with no type-only syntax, every edit replaces a range
\* by a text that differs from it in whitespace only, and the transform
\* returns the input, formatted.
NoTypeSyntax ==
    \A n \in Nodes :
        /\ ~nodes[n].isTypeOnly
        /\ ~IsTypeDeclaration(n)
        /\ Kind(n) \notin {"AsExpression", "TypeKeyword", "TypeReference",
                           "TypeLiteral", "TypeParameter"}

IdempotentOnErasedInput ==
    NoTypeSyntax =>
        /\ \A e \in Edits :
              PrettierFormat(Texts(edits[e].content))
              = PrettierFormat(SubSeq(text, edits[e].start + 1, edits[e].end))
        /\ pc = "done" => formatted = PrettierFormat(text)

====
